---- MODULE Spec2Model ----
(***************************************************************************)
(* Model of the synthetic Q&A generation engine:                           *)
(*   QAFactory            (qa_factory/qa_factory.py)                       *)
(*   BaseGenerator        (generators/base_generator.py)                   *)
(*   BaseSingleDocumentQAGenerator, SingleHopOneDocGenerator,              *)
(*   MultiHopOneDocGenerator (generators/single_document_grounding/)       *)
(*                                                                         *)
(* The program is single-threaded.  The state is the factory's fields and  *)
(* loop variables, each generator's retry_count, the locals of the         *)
(* generate() invocation under way, and the position (pc) in the code.     *)
(* The retrieval backend and the language model are opaque capabilities:   *)
(* every call to them is a nondeterministic choice among its results, one  *)
(* of which is "the call raises".                                          *)
(*                                                                         *)
(* _retry_logic calls generate() recursively and returns its result        *)
(* unchanged through every enclosing frame, so the recursion is modelled   *)
(* as a jump back to the first line of generate() with fresh locals.       *)
(***************************************************************************)
EXTENDS Integers, Sequences, FiniteSets, TLC

(***************************************************************************)
(* Bounds of the model.                                                    *)
(***************************************************************************)
\* Largest number_of_samples passed to QAFactory.generate in Spec.
MaxTotal == 2

\* Largest number_of_samples in SpecAlloc (the allocation arithmetic alone).
MaxAllocTotal == 130

\* Longest sequence of search records passed to _build_context in SpecContext.
MaxFragments == 3

\* Largest shift of a LengthDistributionConfig, and largest log-normal draw,
\* in SpecLength (whole numbers; the values go in steps of 1 / LenDen).
MaxShift == 6
MaxDraw == 3

(***************************************************************************)
(* Proportions are floats in the code.  The model draws them from the      *)
(* dyadic rationals n / Den: on these the float sum, the float product     *)
(* with an integer total and the comparisons of __init__ are exact, so     *)
(* integer arithmetic on the numerators computes what the code computes.   *)
(***************************************************************************)
Den == 2 ^ 7

\* Numerators of the percentages tried: below 0, 0, the smallest positive one,
\* a half, just under 1, 1, above 1.
PropNums ==
    { 0 - (Den \div 4), 0, 1, Den \div 2, Den - 1, Den, Den + (Den \div 4) }

\* BaseGenerator.MAX_RETRIES
MAX_RETRIES == 10

\* main.py builds one generator instance of each concrete class and hands
\* them to the factory in this order; plan entry k uses Generators[k].
Generators == << "SingleHopOneDocGenerator", "MultiHopOneDocGenerator" >>

GenIds == 1 .. Len(Generators)

\* A plan is the list of percentages given to QAFactory.__init__, entry k
\* paired with generator k.
Plans == UNION { [1 .. n -> PropNums] : n \in GenIds }

(***************************************************************************)
(* The corpus the retrieval backend serves: two chunks of document A and   *)
(* one chunk of document B.  A search record is malformed when it lacks    *)
(* the fields the accessors read, so that an accessor raises on it; the    *)
(* corpus holds none, but a call may return one.                           *)
(***************************************************************************)
Corpus ==
    << [id |-> "c1", doc |-> "A", part |-> 0, title |-> "T", content |-> "x1",
        malformed |-> FALSE],
       [id |-> "c2", doc |-> "A", part |-> 1, title |-> "T", content |-> "x2",
        malformed |-> FALSE],
       [id |-> "c3", doc |-> "B", part |-> 0, title |-> "U", content |-> "x3",
        malformed |-> FALSE] >>

ChunkIndex == 1 .. Len(Corpus)

\* SearchService.get_search_record_title / _id / _content
accessor_raises(r) == r.malformed
get_search_record_title(r) == r.title
get_search_record_id(r) == r.id
get_search_record_content(r) == r.content

(***************************************************************************)
(* Helpers.                                                                *)
(***************************************************************************)
Abs(x) == IF x < 0 THEN 0 - x ELSE x

RECURSIVE SumSeq(_)
SumSeq(s) == IF s = << >> THEN 0 ELSE Head(s) + SumSeq(Tail(s))

\* Python int(): truncation toward zero of the exact quotient a / b, b > 0.
int(a, b) == IF a >= 0 THEN a \div b ELSE 0 - ((0 - a) \div b)

RECURSIVE SelectIds(_, _)
\* The corpus records whose ids are listed, in the order listed.
SelectIds(ids, k) ==
    IF k > Len(ids) THEN << >>
    ELSE LET hits == { j \in ChunkIndex : Corpus[j].id = ids[k] }
         IN  (IF hits = {} THEN << >> ELSE << Corpus[CHOOSE j \in hits : TRUE] >>)
             \o SelectIds(ids, k + 1)

(***************************************************************************)
(* QAFactory.__init__: the validation of the plan.                         *)
(***************************************************************************)
\* abs(total_percentage - 1.0) > 0.01, on numerators over Den.
sum_out_of_tolerance(generators) ==
    LET total_percentage == SumSeq(generators)
    IN  100 * Abs(total_percentage - Den) > Den

\* not (0.0 <= percentage <= 1.0) for some entry.
percentage_out_of_range(generators) ==
    \E k \in 1 .. Len(generators) :
        ~ (0 <= generators[k] /\ generators[k] <= Den)

\* Variant: the range check of the percentages is missing.
init_raises_sum_only(generators) == sum_out_of_tolerance(generators)

\* TRUE iff __init__ raises ValueError.
init_raises(generators) ==
    IF sum_out_of_tolerance(generators) THEN TRUE
    ELSE percentage_out_of_range(generators)

\* Variant: the product is rounded up instead of truncated.
samples_for_generator_round_up(n, percentage) == int(n * percentage + Den - 1, Den)

\* num_samples_for_generator = int(number_of_samples * percentage)
samples_for_generator(n, percentage) == int(n * percentage, Den)

(***************************************************************************)
(* BaseGenerator._build_context.  The context is the list context_parts    *)
(* (the code joins it with blank lines); previous_title is << >> for None. *)
(* iterate_results is the for loop: the parts collected, has_results, and  *)
(* whether an accessor raised on the way.                                  *)
(***************************************************************************)
RECURSIVE context_parts(_, _)
\* Variant: previous_title is updated only inside "if current_title".
context_parts_keeps_previous_on_empty(search_results, previous_title) ==
    IF search_results = << >> THEN << >>
    ELSE LET result == Head(search_results)
             current_title == get_search_record_title(result)
             header == IF << current_title >> # previous_title /\ current_title # ""
                       THEN << << "Document Title", current_title >> >>
                       ELSE << >>
             chunk == << "CHUNK_ID", get_search_record_id(result),
                         get_search_record_content(result) >>
         IN  header \o << chunk >>
             \o context_parts(Tail(search_results),
                              IF current_title = "" THEN previous_title
                              ELSE << current_title >>)

context_parts(search_results, previous_title) ==
    IF search_results = << >> THEN << >>
    ELSE LET result == Head(search_results)
             current_title == get_search_record_title(result)
             header == IF << current_title >> # previous_title /\ current_title # ""
                       THEN << << "Document Title", current_title >> >>
                       ELSE << >>
             chunk == << "CHUNK_ID", get_search_record_id(result),
                         get_search_record_content(result) >>
         IN  header \o << chunk >> \o context_parts(Tail(search_results), << current_title >>)

RECURSIVE has_results_after(_, _)
\* Variant: has_results is set only where a title header is emitted.
has_results_after_header_only(search_results, has_results) ==
    IF search_results = << >> THEN has_results
    ELSE has_results_after(Tail(search_results),
                           has_results \/ get_search_record_title(Head(search_results)) # "")

\* has_results after the loop: set to True in every iteration.
has_results_after(search_results, has_results) ==
    IF search_results = << >> THEN has_results
    ELSE has_results_after(Tail(search_results), TRUE)

\* An accessor raises inside the loop.
accessor_raises_in(search_results) ==
    \E k \in 1 .. Len(search_results) : accessor_raises(search_results[k])

\* _build_context leaves by an exception: one raised by an accessor, or
\* ValueError("No search results found...") when has_results stayed False.
build_context_raises(search_results) ==
    \/ accessor_raises_in(search_results)
    \/ ~ has_results_after(search_results, FALSE)

build_context(search_results) == context_parts(search_results, << >>)

(***************************************************************************)
(* SearchService.sort_chunks_by_part_number (insertion sort on part).      *)
(***************************************************************************)
RECURSIVE insert_by_part(_, _)
insert_by_part(r, s) ==
    IF s = << >> THEN << r >>
    ELSE IF r.part <= Head(s).part THEN << r >> \o s
    ELSE << Head(s) >> \o insert_by_part(r, Tail(s))

RECURSIVE sort_chunks_by_part_number(_)
sort_chunks_by_part_number(s) ==
    IF s = << >> THEN << >>
    ELSE insert_by_part(Head(s), sort_chunks_by_part_number(Tail(s)))

(***************************************************************************)
(* Results of the opaque capabilities.                                     *)
(***************************************************************************)
Raised == [raises |-> TRUE, records |-> << >>]
Returned(records) == [raises |-> FALSE, records |-> records]

\* search_service.get_all_chunks_of_document(random_chunk): the chunks of
\* the same document in either order, nothing, or an error.
SameDocument(c) ==
    LET idx == { j \in ChunkIndex : Corpus[j].doc = Corpus[c].doc }
        lo == CHOOSE j \in idx : \A m \in idx : j <= m
        hi == CHOOSE j \in idx : \A m \in idx : j >= m
    IN  IF lo = hi THEN { << Corpus[lo] >> }
        ELSE { << Corpus[lo], Corpus[hi] >>, << Corpus[hi], Corpus[lo] >> }

\* The records with the first one malformed.
Malformed(records) == [records EXCEPT ![1].malformed = TRUE]

AllChunksOutcomes(c) ==
    { Raised, Returned(<< >>) }
    \cup { Returned(s) : s \in SameDocument(c) }
    \cup { Returned(Malformed(s)) : s \in SameDocument(c) }

\* search_service.get_search_records_by_ids(ids): the records asked for
\* (well-formed or not), nothing, or an error.  ids is not empty.
FetchOutcomes(ids) ==
    { Raised, Returned(<< >>), Returned(SelectIds(ids, 1)),
      Returned(Malformed(SelectIds(ids, 1))) }

\* An entry of the log of capability calls: the operation and how it ended.
Call(op, outcome) == << op, outcome >>

\* llm_client.beta.chat.completions.parse(response_format=QAVerificationResult)
JudgeRaised == [raises |-> TRUE, is_correct |-> FALSE, reason |-> << >>]
JudgeOutcomes ==
    { JudgeRaised }
    \cup { [raises |-> FALSE, is_correct |-> b, reason |-> << "judge" >>] : b \in BOOLEAN }

\* QA (models/qa_models.py); NoQA stands for None.
NoQA == [question |-> "", ground_truth_answer |-> "", chunk_ids |-> << >>]
Candidates ==
    { [question |-> "q", ground_truth_answer |-> "a", chunk_ids |-> ids] :
        ids \in { << "c1" >>, << "c1", "c2" >> } }

\* llm_client.beta.chat.completions.parse(response_format=QA, tools=...):
\* the message carries a tool call or not, and a parsed QA or None.
NoCompletion == [raises |-> FALSE, tool_calls |-> << >>, parsed |-> NoQA]
CompletionOutcomes ==
    { [raises |-> TRUE, tool_calls |-> << >>, parsed |-> NoQA] }
    \cup { [raises |-> FALSE, tool_calls |-> t, parsed |-> p] :
             t \in { << >>, << "_retry_logic" >> }, p \in Candidates \cup { NoQA } }

\* Floats of the response-length sampler are multiples of 1 / LenDen.
LenDen == 2 ^ 2

\* main.py: LengthDistributionConfig(mean=2.0, sigma=0.8, shift=3).  mean and
\* sigma only shape the draw, which is any value here.
MainConfig == [shift |-> 3 * LenDen]

\* Python max() of two numbers.
max(a, b) == IF b > a THEN b ELSE a

\* DiversityGenerator._get_response_length, for a draw of np.random.lognormal:
\* length = draw + shift; return int(max(shift, length))
get_response_length(shift, draw) ==
    LET length == draw + shift
    IN  int(max(shift, length), LenDen)

\* DiversityInjection (models/diversity_models.py); response_length 0 is None.
NoDiversity ==
    [response_length |-> 0, tone_injection |-> "", disruptive_injection |-> "",
     language_injection |-> ""]
DiversityInjections ==
    { [response_length |-> 3, tone_injection |-> "", disruptive_injection |-> "",
       language_injection |-> "English"],
      [response_length |-> 10, tone_injection |-> "formal", disruptive_injection |-> "",
       language_injection |-> "Swedish"] }

(***************************************************************************)
(* The verification predicates.  Each takes the results of the capability  *)
(* calls it would make; a call that is not reached is not looked at.       *)
(* A predicate yields its name, whether it raised, its QAVerificationResult*)
(* (is_correct, reason), the capability calls it made, the records its     *)
(* fetch returned and the records it put before the judging model.  A chain yields whether it raised, its    *)
(* QAVerificationResult and the results of the predicates it ran, in order.*)
(***************************************************************************)
NoResult == [is_correct |-> FALSE, reason |-> << >>]

PredicateResult(name, ok, reason, calls, fetched, judged) ==
    [name |-> name, raised |-> FALSE, is_correct |-> ok, reason |-> reason,
     calls |-> calls, fetched |-> fetched, judged |-> judged]
PredicateRaised(name, calls) ==
    [name |-> name, raised |-> TRUE, is_correct |-> FALSE, reason |-> << >>,
     calls |-> calls, fetched |-> << >>, judged |-> << >>]

Verdict(ok, reason, checks) ==
    [raised |-> FALSE, is_correct |-> ok, reason |-> reason, checks |-> checks]
VerdictRaised(checks) ==
    [raised |-> TRUE, is_correct |-> FALSE, reason |-> << >>, checks |-> checks]

RECURSIVE CallsOf(_)
\* The capability calls made by a sequence of predicates.
CallsOf(checks) ==
    IF checks = << >> THEN << >> ELSE Head(checks).calls \o CallsOf(Tail(checks))

\* Variant: the judging call is inside the try, and its exception becomes a
\* failed check.
verify_qa_chunk_connection_catches_judge(fetch, judge) ==
    LET name == "_verify_qa_chunk_connection"
        fetch_calls == << Call("get_search_records_by_ids", "returned") >>
    IN  IF fetch.raises
        THEN PredicateRaised(name, << Call("get_search_records_by_ids", "raised") >>)
        ELSE IF fetch.records = << >>
             THEN PredicateResult(name, FALSE, << "No chunks found for the given chunk IDs" >>,
                                  fetch_calls, << >>, << >>)
        ELSE IF build_context_raises(fetch.records)
             THEN PredicateResult(name, FALSE, << "Error building context" >>, fetch_calls,
                                  fetch.records, << >>)
        ELSE IF judge.raises
             THEN PredicateResult(name, FALSE, << "Error building context" >>,
                                  Append(fetch_calls, Call("llm_judge", "raised")),
                                  fetch.records, << >>)
        ELSE PredicateResult(name, judge.is_correct, judge.reason,
                             Append(fetch_calls, Call("llm_judge", "returned")),
                             fetch.records, fetch.records)

\* Variant: the test "if not results" is missing and an empty context is
\* put before the judging model.
verify_qa_chunk_connection_judges_nothing(fetch, judge) ==
    LET name == "_verify_qa_chunk_connection"
        fetch_calls == << Call("get_search_records_by_ids", "returned") >>
    IN  IF fetch.raises
        THEN PredicateRaised(name, << Call("get_search_records_by_ids", "raised") >>)
        ELSE IF accessor_raises_in(fetch.records)
             THEN PredicateResult(name, FALSE, << "Error building context" >>, fetch_calls,
                                  fetch.records, << >>)
        ELSE IF judge.raises
             THEN PredicateRaised(name, Append(fetch_calls, Call("llm_judge", "raised")))
        ELSE PredicateResult(name, judge.is_correct, judge.reason,
                             Append(fetch_calls, Call("llm_judge", "returned")),
                             fetch.records, fetch.records)

\* BaseGenerator._verify_qa_chunk_connection
verify_qa_chunk_connection(fetch, judge) ==
    LET name == "_verify_qa_chunk_connection"
        fetch_calls == << Call("get_search_records_by_ids", "returned") >>
    IN  IF fetch.raises
        THEN PredicateRaised(name, << Call("get_search_records_by_ids", "raised") >>)
        ELSE IF fetch.records = << >>
             THEN PredicateResult(name, FALSE, << "No chunks found for the given chunk IDs" >>,
                                  fetch_calls, << >>, << >>)
        ELSE IF build_context_raises(fetch.records)
             THEN PredicateResult(name, FALSE, << "Error building context" >>, fetch_calls,
                                  fetch.records, << >>)
        ELSE IF judge.raises
             THEN PredicateRaised(name, Append(fetch_calls, Call("llm_judge", "raised")))
        ELSE PredicateResult(name, judge.is_correct, judge.reason,
                             Append(fetch_calls, Call("llm_judge", "returned")),
                             fetch.records, fetch.records)

\* MultiHopOneDocGenerator._verify_qa_question_requires_multi_hop
verify_qa_question_requires_multi_hop(fetch, judge) ==
    LET name == "_verify_qa_question_requires_multi_hop"
        fetch_calls == << Call("get_search_records_by_ids", "returned") >>
    IN  IF fetch.raises
        THEN PredicateRaised(name, << Call("get_search_records_by_ids", "raised") >>)
        ELSE IF build_context_raises(fetch.records)
             THEN PredicateResult(name, FALSE, << "Error building context" >>, fetch_calls,
                                  fetch.records, << >>)
        ELSE IF judge.raises
             THEN PredicateRaised(name, Append(fetch_calls, Call("llm_judge", "raised")))
        ELSE PredicateResult(name, judge.is_correct, judge.reason,
                             Append(fetch_calls, Call("llm_judge", "returned")),
                             fetch.records, fetch.records)

\* SingleHopOneDocGenerator._verify_qa
single_hop_verify_qa(fetch1, judge1) ==
    LET answer_has_chunk_connection == verify_qa_chunk_connection(fetch1, judge1)
        ran == << answer_has_chunk_connection >>
    IN  IF answer_has_chunk_connection.raised THEN VerdictRaised(ran)
        ELSE IF ~ answer_has_chunk_connection.is_correct
             THEN Verdict(FALSE, << "not found in specified chunks" >>
                                 \o answer_has_chunk_connection.reason, ran)
        ELSE Verdict(TRUE, << "All validation checks passed." >>, ran)

\* Variant: the multi-hop generator runs the grounding check only.
multi_hop_verify_qa_grounding_only(fetch1, judge1, fetch2, judge2) ==
    LET answer_has_chunk_connection == verify_qa_chunk_connection(fetch1, judge1)
        ran == << answer_has_chunk_connection >>
    IN  IF answer_has_chunk_connection.raised THEN VerdictRaised(ran)
        ELSE IF ~ answer_has_chunk_connection.is_correct
             THEN Verdict(FALSE, << "not found in specified chunks" >>
                                 \o answer_has_chunk_connection.reason, ran)
        ELSE Verdict(TRUE, << "All validation checks passed." >>, ran)

\* Variant: both checks are run before either result is looked at.
multi_hop_verify_qa_eager(fetch1, judge1, fetch2, judge2) ==
    LET answer_has_chunk_connection == verify_qa_chunk_connection(fetch1, judge1)
        question_requires_multi_hop ==
            verify_qa_question_requires_multi_hop(fetch2, judge2)
        ran1 == << answer_has_chunk_connection >>
        ran2 == << answer_has_chunk_connection, question_requires_multi_hop >>
    IN  IF answer_has_chunk_connection.raised THEN VerdictRaised(ran1)
        ELSE IF ~ answer_has_chunk_connection.is_correct
             THEN Verdict(FALSE, << "not found in specified chunks" >>
                                 \o answer_has_chunk_connection.reason, ran2)
        ELSE IF question_requires_multi_hop.raised THEN VerdictRaised(ran2)
        ELSE IF ~ question_requires_multi_hop.is_correct
             THEN Verdict(FALSE, << "does not require multi-hop reasoning" >>
                                 \o question_requires_multi_hop.reason, ran2)
        ELSE Verdict(TRUE, << "All validation checks passed." >>, ran2)

\* MultiHopOneDocGenerator._verify_qa
multi_hop_verify_qa(fetch1, judge1, fetch2, judge2) ==
    LET answer_has_chunk_connection == verify_qa_chunk_connection(fetch1, judge1)
        question_requires_multi_hop ==
            verify_qa_question_requires_multi_hop(fetch2, judge2)
        ran1 == << answer_has_chunk_connection >>
        ran2 == << answer_has_chunk_connection, question_requires_multi_hop >>
    IN  IF answer_has_chunk_connection.raised THEN VerdictRaised(ran1)
        ELSE IF ~ answer_has_chunk_connection.is_correct
             THEN Verdict(FALSE, << "not found in specified chunks" >>
                                 \o answer_has_chunk_connection.reason, ran1)
        ELSE IF question_requires_multi_hop.raised THEN VerdictRaised(ran2)
        ELSE IF ~ question_requires_multi_hop.is_correct
             THEN Verdict(FALSE, << "does not require multi-hop reasoning" >>
                                 \o question_requires_multi_hop.reason, ran2)
        ELSE Verdict(TRUE, << "All validation checks passed." >>, ran2)

\* self._verify_qa(qa), dispatched on the generator's class.
verify_qa(g, fetch1, judge1, fetch2, judge2) ==
    IF Generators[g] = "SingleHopOneDocGenerator"
    THEN single_hop_verify_qa(fetch1, judge1)
    ELSE multi_hop_verify_qa(fetch1, judge1, fetch2, judge2)

\* Variant: every generator returns the single-hop tag set.
get_tags_single_hop_for_all(g) == [question_type |-> "single_hop_same_doc"]

\* DiversityGenerator.get_injection_as_string: the four labelled lines.
get_injection_as_string(injection) ==
    << << "Response Length", injection.response_length >>,
       << "Tone Injection", injection.tone_injection >>,
       << "Disruptive Injection", injection.disruptive_injection >>,
       << "Language Injection", injection.language_injection >> >>

\* BaseSingleDocumentQAGenerator._build_system_prompt: the base prompt of the
\* generator's class, the formatted diversity injection, the context.
\* NoPrompt stands for the local before it is assigned.
NoPrompt == [base_prompt |-> "", guidelines |-> << >>, context |-> << >>]
build_system_prompt(g, context_text, injection) ==
    [base_prompt |-> Generators[g],
     guidelines |-> get_injection_as_string(injection),
     context |-> context_text]

\* self._get_tags()
get_tags(g) ==
    IF Generators[g] = "SingleHopOneDocGenerator"
    THEN [question_type |-> "single_hop_same_doc"]
    ELSE [question_type |-> "multi_hop_same_doc"]

RECURSIVE contents_of(_)
\* BaseSingleDocumentQAGenerator._get_chunk_content_by_ids, given the records
\* the fetch returned.
contents_of(records) ==
    IF records = << >> THEN << >>
    ELSE << get_search_record_content(Head(records)) >> \o contents_of(Tail(records))

(***************************************************************************)
(* State.                                                                  *)
(***************************************************************************)
VARIABLES
    config,                     \* DiversityGenerator.config: the shift, in units of 1 / LenDen
    generators,                 \* QAFactory.generators: the percentages of the plan
    number_of_samples,          \* argument of QAFactory.generate
    pc,                         \* position in the code
    i,                          \* index of the plan entry the outer loop is at
    num_samples_for_generator,  \* local of QAFactory.generate
    sample_idx,                 \* inner loop variable of QAFactory.generate
    samples,                    \* local list of QAFactory.generate (the output)
    files,                      \* the batches written by save_qa_to_json
    retry_count,                \* retry_count of each generator instance
    chunks,                     \* locals of generate(): all_chunks_for_document_sorted
    context,                    \*   context
    diversity_injection,        \*   diversity_injection
    system_prompt,              \*   system_prompt
    qa_completion,              \*   qa_completion
    qa,                         \*   qa
    verify_qa_result,           \*   verify_qa_result
    requested,                  \* history: the counts computed for the plan entries so far
    attempts,                   \* history: number of times generate() was entered, per generator
    only_grounding_false,       \* history: every attempt of the generator so far ended with
                                \*   the grounding check returning is_correct = False
    calls,                      \* history: the capability calls of the generate() frame
                                \*   under way, in order, each with how it ended
    checks                      \* history: the verification predicates that frame ran,
                                \*   in order, each with its result

vars ==
    << config, generators, number_of_samples, pc, i, num_samples_for_generator, sample_idx,
       samples, files, retry_count, chunks, context,
       diversity_injection, system_prompt, qa_completion, qa, verify_qa_result, requested,
       attempts, only_grounding_false, calls, checks >>

factory_vars ==
    << config, generators, number_of_samples, i, num_samples_for_generator, sample_idx >>

locals == << chunks, context, diversity_injection, system_prompt, qa_completion, qa,
             verify_qa_result >>

history == << requested, attempts, only_grounding_false >>

frame_log == << calls, checks >>

\* The locals of a generate() frame that has not run yet.
FreshLocals ==
    /\ chunks' = << >>
    /\ context' = << >>
    /\ diversity_injection' = NoDiversity
    /\ system_prompt' = NoPrompt
    /\ qa_completion' = NoCompletion
    /\ qa' = NoQA
    /\ verify_qa_result' = NoResult
    /\ calls' = << >>
    /\ checks' = << >>

InitCommon ==
    /\ config = MainConfig
    /\ generators \in Plans
    /\ pc = "construct"
    /\ i = 0
    /\ num_samples_for_generator = 0
    /\ sample_idx = 0
    /\ samples = << >>
    /\ files = << >>
    /\ retry_count = [g \in GenIds |-> 0]
    /\ chunks = << >>
    /\ context = << >>
    /\ diversity_injection = NoDiversity
    /\ system_prompt = NoPrompt
    /\ qa_completion = NoCompletion
    /\ qa = NoQA
    /\ verify_qa_result = NoResult
    /\ requested = << >>
    /\ attempts = [g \in GenIds |-> 0]
    /\ only_grounding_false = [g \in GenIds |-> TRUE]
    /\ calls = << >>
    /\ checks = << >>

Init ==
    /\ InitCommon
    /\ number_of_samples \in 1 .. MaxTotal

(***************************************************************************)
(* QAFactory                                                               *)
(***************************************************************************)
\* main.py: factory = QAFactory(generators=[...]); factory.generate(n).
\* __init__ raises ValueError for an invalid plan, else generate starts its
\* loop over the plan with samples = [].
Construct ==
    /\ pc = "construct"
    /\ IF init_raises(generators)
       THEN pc' = "config_error" /\ i' = i
       ELSE pc' = "for_generator" /\ i' = 1
    /\ UNCHANGED << config, generators, number_of_samples, num_samples_for_generator, sample_idx,
                    samples, files, retry_count, locals, history, frame_log >>

\* Variant: an entry whose count is 0 is still given one sample.
NextGenerator_at_least_one_sample ==
    /\ pc = "for_generator"
    /\ i <= Len(generators)
    /\ LET n == samples_for_generator(number_of_samples, generators[i])
       IN  /\ num_samples_for_generator' = IF n = 0 THEN 1 ELSE n
           /\ requested' = Append(requested, n)
           /\ pc' = "for_sample" /\ i' = i
    /\ sample_idx' = 0
    /\ UNCHANGED << config, generators, number_of_samples, samples, files, retry_count, locals,
                    attempts, only_grounding_false, frame_log >>

\* for i, (generator, percentage) in enumerate(self.generators): the count
\* of the entry, and "continue" when it is 0.
NextGenerator ==
    /\ pc = "for_generator"
    /\ i <= Len(generators)
    /\ LET n == samples_for_generator(number_of_samples, generators[i])
       IN  /\ num_samples_for_generator' = n
           /\ requested' = Append(requested, n)
           /\ IF n = 0
              THEN pc' = "for_generator" /\ i' = i + 1
              ELSE pc' = "for_sample" /\ i' = i
    /\ sample_idx' = 0
    /\ UNCHANGED << config, generators, number_of_samples, samples, files, retry_count, locals,
                    attempts, only_grounding_false, frame_log >>

\* for sample_idx in range(num_samples_for_generator): sample = generator.generate()
\* The call enters generate() of generator i with fresh locals.
StartSample ==
    /\ pc = "for_sample"
    /\ sample_idx < num_samples_for_generator
    /\ pc' = "seeding"
    /\ attempts' = [attempts EXCEPT ![i] = @ + 1]
    /\ UNCHANGED << factory_vars, samples, files, retry_count, locals, requested,
                    only_grounding_false, frame_log >>

\* The inner loop is exhausted: on to the next plan entry.
EndGenerator ==
    /\ pc = "for_sample"
    /\ sample_idx >= num_samples_for_generator
    /\ pc' = "for_generator"
    /\ i' = i + 1
    /\ UNCHANGED << config, generators, number_of_samples, num_samples_for_generator, sample_idx,
                    samples, files, retry_count, locals, history, frame_log >>

\* Variant: the batch is written from inside the loop over the plan.
Save_inside_loop ==
    /\ pc = "for_generator"
    /\ files' = Append(files, samples)
    /\ pc' = "done"
    /\ UNCHANGED << factory_vars, samples, retry_count, locals, history, frame_log >>

\* After the loop over the plan: full_path = self.save_qa_to_json(samples); return.
Save ==
    /\ pc = "for_generator"
    /\ i > Len(generators)
    /\ files' = Append(files, samples)
    /\ pc' = "done"
    /\ UNCHANGED << factory_vars, samples, retry_count, locals, history, frame_log >>

(***************************************************************************)
(* BaseGenerator._retry_logic, for the generator at plan entry i.          *)
(* sys.exit(1) raises SystemExit, which no handler on the stack catches    *)
(* (they catch Exception): the process ends.                               *)
(***************************************************************************)
\* Variant: the comparison is <= instead of <.
retry_logic_le ==
    IF retry_count[i] <= MAX_RETRIES
    THEN /\ retry_count' = [retry_count EXCEPT ![i] = @ + 1]
         /\ attempts' = [attempts EXCEPT ![i] = @ + 1]
         /\ pc' = "seeding"
         /\ FreshLocals
    ELSE /\ pc' = "exited"
         /\ UNCHANGED << retry_count, attempts, locals, frame_log >>

\* Variant: on exhaustion the sample is given up and control returns to the
\* factory's loop instead of ending the process.
retry_logic_gives_up_sample ==
    IF retry_count[i] < MAX_RETRIES
    THEN /\ retry_count' = [retry_count EXCEPT ![i] = @ + 1]
         /\ attempts' = [attempts EXCEPT ![i] = @ + 1]
         /\ pc' = "seeding"
         /\ FreshLocals
    ELSE /\ pc' = "for_sample"
         /\ FreshLocals
         /\ UNCHANGED << retry_count, attempts >>

\* Variant: the retry resumes at the drafting call with the context already
\* built instead of calling generate() again.
retry_logic_reuses_context ==
    IF retry_count[i] < MAX_RETRIES
    THEN /\ retry_count' = [retry_count EXCEPT ![i] = @ + 1]
         /\ attempts' = [attempts EXCEPT ![i] = @ + 1]
         /\ pc' = "drafting"
         /\ UNCHANGED << locals, frame_log >>
    ELSE /\ pc' = "exited"
         /\ UNCHANGED << retry_count, attempts, locals, frame_log >>

\* Variant: the retry is made without counting it.
retry_logic_uncounted ==
    /\ pc' = "seeding"
    /\ FreshLocals
    /\ UNCHANGED << retry_count, attempts >>

retry_logic ==
    IF retry_count[i] < MAX_RETRIES
    THEN /\ retry_count' = [retry_count EXCEPT ![i] = @ + 1]
         /\ attempts' = [attempts EXCEPT ![i] = @ + 1]
         /\ pc' = "seeding"
         /\ FreshLocals
    ELSE /\ pc' = "exited"
         /\ UNCHANGED << retry_count, attempts, locals, frame_log >>

\* An exception that nothing catches: it leaves generate() and
\* QAFactory.generate (the traced wrappers re-raise it).  new_calls and
\* new_checks are what the frame did on the way to the exception.
Propagate(new_calls, new_checks) ==
    /\ pc' = "error"
    /\ calls' = calls \o new_calls
    /\ checks' = checks \o new_checks
    /\ UNCHANGED << factory_vars, samples, files, retry_count, locals, history >>

(***************************************************************************)
(* BaseSingleDocumentQAGenerator.generate                                  *)
(***************************************************************************)
\* random_chunk = get_random_chunk(); all chunks of its document; sorted.
\* random_chunk is used for the second call only, so it is not kept.
\* Variant: the single-hop generator seeds with the random chunk alone.
Seed_single_hop_random_chunk_only ==
    /\ pc = "seeding"
    /\ \E c \in ChunkIndex : \E o \in AllChunksOutcomes(c) :
          IF o.raises
          THEN Propagate(<< Call("get_random_chunk", "returned"),
                            Call("get_all_chunks_of_document", "raised") >>, << >>)
          ELSE /\ chunks' = IF Generators[i] = "SingleHopOneDocGenerator"
                            THEN << Corpus[c] >>
                            ELSE sort_chunks_by_part_number(o.records)
               /\ pc' = "build_context"
               /\ calls' = calls \o << Call("get_random_chunk", "returned"),
                                        Call("get_all_chunks_of_document", "returned") >>
               /\ UNCHANGED << factory_vars, samples, files, retry_count, context,
                               diversity_injection, system_prompt, qa_completion, qa, verify_qa_result,
                               history, checks >>

Seed ==
    /\ pc = "seeding"
    /\ \E c \in ChunkIndex : \E o \in AllChunksOutcomes(c) :
          IF o.raises
          THEN Propagate(<< Call("get_random_chunk", "returned"),
                            Call("get_all_chunks_of_document", "raised") >>, << >>)
          ELSE /\ chunks' = sort_chunks_by_part_number(o.records)
               /\ pc' = "build_context"
               /\ calls' = calls \o << Call("get_random_chunk", "returned"),
                                        Call("get_all_chunks_of_document", "returned") >>
               /\ UNCHANGED << factory_vars, samples, files, retry_count, context,
                               diversity_injection, system_prompt, qa_completion, qa, verify_qa_result,
                               history, checks >>

\* Variant: the call of _build_context is not inside a try.
BuildContext_uncaught ==
    /\ pc = "build_context"
    /\ IF build_context_raises(chunks)
       THEN Propagate(<< >>, << >>)
       ELSE /\ context' = build_context(chunks)
            /\ \E d \in DiversityInjections : diversity_injection' = d
            /\ system_prompt' = build_system_prompt(i, context', diversity_injection')
            /\ pc' = "drafting"
            /\ calls' = Append(calls, Call("get_diversity_injection", "returned"))
            /\ UNCHANGED << factory_vars, samples, files, retry_count, chunks,
                            qa_completion, qa, verify_qa_result, history, checks >>

\* Variant: the except branch logs the error and goes on with an empty context.
BuildContext_goes_on_without_context ==
    /\ pc = "build_context"
    /\ context' = IF build_context_raises(chunks) THEN << >> ELSE build_context(chunks)
    /\ \E d \in DiversityInjections : diversity_injection' = d
    /\ system_prompt' = build_system_prompt(i, context', diversity_injection')
    /\ pc' = "drafting"
    /\ calls' = Append(calls, Call("get_diversity_injection", "returned"))
    /\ UNCHANGED << factory_vars, samples, files, retry_count, chunks,
                    qa_completion, qa, verify_qa_result, history, checks >>

\* try: context = self._build_context(...) except Exception: return self._retry_logic()
\* then diversity_injection = self.diversity_generator.get_diversity_injection()
BuildContext ==
    /\ pc = "build_context"
    /\ IF build_context_raises(chunks)
       THEN /\ retry_logic
            /\ only_grounding_false' = [only_grounding_false EXCEPT ![i] = FALSE]
            /\ UNCHANGED << factory_vars, samples, files, requested >>
       ELSE /\ context' = build_context(chunks)
            /\ \E d \in DiversityInjections : diversity_injection' = d
            /\ system_prompt' = build_system_prompt(i, context', diversity_injection')
            /\ pc' = "drafting"
            /\ calls' = Append(calls, Call("get_diversity_injection", "returned"))
            /\ UNCHANGED << factory_vars, samples, files, retry_count, chunks,
                            qa_completion, qa, verify_qa_result, history, checks >>

\* qa_completion = self.llm_client.beta.chat.completions.parse(...)
Draft ==
    /\ pc = "drafting"
    /\ \E o \in CompletionOutcomes :
          IF o.raises THEN Propagate(<< Call("llm_draft", "raised") >>, << >>)
          ELSE /\ qa_completion' = o
               /\ pc' = "drafted"
               /\ calls' = Append(calls, Call("llm_draft", "returned"))
               /\ UNCHANGED << factory_vars, samples, files, retry_count,
                               chunks, context, diversity_injection, system_prompt, qa,
                               verify_qa_result, history, checks >>

\* Variant: message.tool_calls is not looked at; the parsed value is taken.
HandleCompletion_ignores_tool_call ==
    /\ pc = "drafted"
    /\ IF qa_completion.parsed = NoQA
       THEN Propagate(<< >>, << >>)
       ELSE /\ qa' = qa_completion.parsed
            /\ pc' = "verifying"
            /\ UNCHANGED << factory_vars, samples, files, retry_count, chunks,
                            context, diversity_injection, system_prompt, qa_completion, verify_qa_result,
                            history, frame_log >>

\* if message.tool_calls: if name == "_retry_logic": return self._retry_logic()
\* qa = message.parsed; qa.question raises AttributeError when parsed is None.
HandleCompletion ==
    /\ pc = "drafted"
    /\ IF qa_completion.tool_calls # << >> /\ Head(qa_completion.tool_calls) = "_retry_logic"
       THEN /\ retry_logic
            /\ only_grounding_false' = [only_grounding_false EXCEPT ![i] = FALSE]
            /\ UNCHANGED << factory_vars, samples, files, requested >>
       ELSE IF qa_completion.parsed = NoQA
       THEN Propagate(<< >>, << >>)
       ELSE /\ qa' = qa_completion.parsed
            /\ pc' = "verifying"
            /\ UNCHANGED << factory_vars, samples, files, retry_count, chunks,
                            context, diversity_injection, system_prompt, qa_completion, verify_qa_result,
                            history, frame_log >>

\* The results of the calls the multi-hop check makes; the single-hop chain
\* never makes them, and the multi-hop chain only after grounding passed.
SecondFetch(g, ids, fetch1, judge1) ==
    IF Generators[g] = "SingleHopOneDocGenerator" THEN { Raised }
    ELSE IF verify_qa_chunk_connection(fetch1, judge1).is_correct THEN FetchOutcomes(ids)
    ELSE { Raised }

SecondJudge(g, fetch1, judge1) ==
    IF Generators[g] = "SingleHopOneDocGenerator" THEN { JudgeRaised }
    ELSE IF verify_qa_chunk_connection(fetch1, judge1).is_correct THEN JudgeOutcomes
    ELSE { JudgeRaised }

\* verify_qa_result = self._verify_qa(qa)
VerifyQA ==
    /\ pc = "verifying"
    /\ \E fetch1 \in FetchOutcomes(qa.chunk_ids), judge1 \in JudgeOutcomes :
       \E fetch2 \in SecondFetch(i, qa.chunk_ids, fetch1, judge1),
          judge2 \in SecondJudge(i, fetch1, judge1) :
          LET v == verify_qa(i, fetch1, judge1, fetch2, judge2)
          IN  IF v.raised THEN Propagate(CallsOf(v.checks), v.checks)
              ELSE /\ verify_qa_result' = [is_correct |-> v.is_correct, reason |-> v.reason]
                   /\ pc' = "verified"
                   /\ calls' = calls \o CallsOf(v.checks)
                   /\ checks' = checks \o v.checks
                   /\ UNCHANGED << factory_vars, samples, files, retry_count,
                                   chunks, context, diversity_injection, system_prompt, qa_completion, qa,
                                   history >>

\* if not verify_qa_result.is_correct: return self._retry_logic()
Reject ==
    /\ pc = "verified"
    /\ ~ verify_qa_result.is_correct
    /\ retry_logic
    /\ only_grounding_false' =
          [only_grounding_false EXCEPT
              ![i] = @ /\ Head(verify_qa_result.reason) = "not found in specified chunks"]
    /\ UNCHANGED << factory_vars, samples, files, requested >>

\* The record generate() returns for the candidate, given the records the
\* acceptance-time fetch returned (_get_chunk_content_by_ids reads their
\* content outside any try).
QATagged(g, candidate, injection, records) ==
    [question |-> candidate.question,
     ground_truth_answer |-> candidate.ground_truth_answer,
     tags |-> get_tags(g),
     diversity_injection |-> injection,
     chunk_ids |-> candidate.chunk_ids,
     chunk_content |-> contents_of(records)]

\* Variant: the check of verify_qa_result.is_correct is missing.
Accept_unverified ==
    /\ pc = "verified"
    /\ \E fetch \in FetchOutcomes(qa.chunk_ids) :
          IF fetch.raises
          THEN Propagate(<< Call("get_search_records_by_ids", "raised") >>, << >>)
          ELSE IF accessor_raises_in(fetch.records)
          THEN Propagate(<< Call("get_search_records_by_ids", "returned"),
                            Call("get_search_record_content", "raised") >>, << >>)
          ELSE /\ samples' = Append(samples, QATagged(i, qa, diversity_injection, fetch.records))
               /\ sample_idx' = sample_idx + 1
               /\ pc' = "for_sample"
               /\ FreshLocals
               /\ only_grounding_false' = [only_grounding_false EXCEPT ![i] = FALSE]
               /\ UNCHANGED << config, generators, number_of_samples, i, num_samples_for_generator,
                               files, retry_count, requested, attempts >>

\* Variant: the factory inserts the sample at the front of the list.
Accept_prepends ==
    /\ pc = "verified"
    /\ verify_qa_result.is_correct
    /\ \E fetch \in FetchOutcomes(qa.chunk_ids) :
          IF fetch.raises
          THEN Propagate(<< Call("get_search_records_by_ids", "raised") >>, << >>)
          ELSE IF accessor_raises_in(fetch.records)
          THEN Propagate(<< Call("get_search_records_by_ids", "returned"),
                            Call("get_search_record_content", "raised") >>, << >>)
          ELSE /\ samples' = << QATagged(i, qa, diversity_injection, fetch.records) >> \o samples
               /\ sample_idx' = sample_idx + 1
               /\ pc' = "for_sample"
               /\ FreshLocals
               /\ only_grounding_false' = [only_grounding_false EXCEPT ![i] = FALSE]
               /\ UNCHANGED << config, generators, number_of_samples, i, num_samples_for_generator,
                               files, retry_count, requested, attempts >>

\* Variant: the record is given a profile sampled when the record is built.
Accept_samples_profile_again ==
    /\ pc = "verified"
    /\ verify_qa_result.is_correct
    /\ \E fetch \in FetchOutcomes(qa.chunk_ids), d \in DiversityInjections :
          IF fetch.raises
          THEN Propagate(<< Call("get_search_records_by_ids", "raised") >>, << >>)
          ELSE IF accessor_raises_in(fetch.records)
          THEN Propagate(<< Call("get_search_records_by_ids", "returned"),
                            Call("get_search_record_content", "raised") >>, << >>)
          ELSE /\ samples' = Append(samples, QATagged(i, qa, d, fetch.records))
               /\ sample_idx' = sample_idx + 1
               /\ pc' = "for_sample"
               /\ FreshLocals
               /\ only_grounding_false' = [only_grounding_false EXCEPT ![i] = FALSE]
               /\ UNCHANGED << config, generators, number_of_samples, i, num_samples_for_generator,
                               files, retry_count, requested, attempts >>

\* qa_tagged = QATagged(...); return qa_tagged  -- and, back in
\* QAFactory.generate, samples.append(sample).
Accept ==
    /\ pc = "verified"
    /\ verify_qa_result.is_correct
    /\ \E fetch \in FetchOutcomes(qa.chunk_ids) :
          IF fetch.raises
          THEN Propagate(<< Call("get_search_records_by_ids", "raised") >>, << >>)
          ELSE IF accessor_raises_in(fetch.records)
          THEN Propagate(<< Call("get_search_records_by_ids", "returned"),
                            Call("get_search_record_content", "raised") >>, << >>)
          ELSE /\ samples' = Append(samples, QATagged(i, qa, diversity_injection, fetch.records))
               /\ sample_idx' = sample_idx + 1
               /\ pc' = "for_sample"
               /\ FreshLocals
               /\ only_grounding_false' = [only_grounding_false EXCEPT ![i] = FALSE]
               /\ UNCHANGED << config, generators, number_of_samples, i, num_samples_for_generator,
                               files, retry_count, requested, attempts >>

Next ==
    \/ Construct
    \/ NextGenerator
    \/ StartSample
    \/ EndGenerator
    \/ Save
    \/ Seed
    \/ BuildContext
    \/ Draft
    \/ HandleCompletion
    \/ VerifyQA
    \/ Reject
    \/ Accept

Spec == Init /\ [][Next]_vars

\* The run with its scheduling: the program is one thread that keeps
\* executing, and every capability call returns or raises, so a step that
\* can be taken is eventually taken.
FairSpec == Spec /\ WF_vars(Next)

(***************************************************************************)
(* The allocation arithmetic alone, for totals too large to generate:      *)
(* the constructor, then the loop over the plan computing each entry's     *)
(* count without running the inner loop.                                   *)
(***************************************************************************)
InitAlloc ==
    /\ InitCommon
    /\ number_of_samples \in 1 .. MaxAllocTotal

\* for i, (generator, percentage) in enumerate(self.generators):
\*     num_samples_for_generator = int(number_of_samples * percentage)
CountEntry ==
    /\ pc = "for_generator"
    /\ i <= Len(generators)
    /\ num_samples_for_generator' = samples_for_generator(number_of_samples, generators[i])
    /\ requested' = Append(requested, num_samples_for_generator')
    /\ i' = i + 1
    /\ UNCHANGED << config, generators, number_of_samples, pc, sample_idx, samples, files,
                    retry_count, locals, attempts, only_grounding_false, frame_log >>

NextAlloc ==
    \/ Construct
    \/ CountEntry

SpecAlloc == InitAlloc /\ [][NextAlloc]_vars

(***************************************************************************)
(* _build_context alone, called on any sequence of search records:         *)
(* records of one titled document, of another, of an untitled document,    *)
(* and a record on which the accessors raise.                              *)
(***************************************************************************)
ContextFragments ==
    { Corpus[j] : j \in ChunkIndex }
    \cup { [id |-> "c4", doc |-> "C", part |-> 0, title |-> "", content |-> "x4",
            malformed |-> FALSE],
           [Corpus[1] EXCEPT !.malformed = TRUE] }

ContextInputs == UNION { [1 .. n -> ContextFragments] : n \in 0 .. MaxFragments }

InitContext ==
    /\ config = MainConfig
    /\ generators = << Den >>
    /\ number_of_samples = 1
    /\ pc = "context_call"
    /\ i = 1
    /\ num_samples_for_generator = 1
    /\ sample_idx = 0
    /\ samples = << >>
    /\ files = << >>
    /\ retry_count = [g \in GenIds |-> 0]
    /\ chunks \in ContextInputs
    /\ context = << >>
    /\ diversity_injection = NoDiversity
    /\ system_prompt = NoPrompt
    /\ qa_completion = NoCompletion
    /\ qa = NoQA
    /\ verify_qa_result = NoResult
    /\ requested = << 1 >>
    /\ attempts = [g \in GenIds |-> 0]
    /\ only_grounding_false = [g \in GenIds |-> TRUE]
    /\ calls = << >>
    /\ checks = << >>

\* context = self._build_context(search_results): it raises or returns.
CallBuildContext ==
    /\ pc = "context_call"
    /\ IF build_context_raises(chunks)
       THEN pc' = "context_raised" /\ context' = context
       ELSE pc' = "context_returned" /\ context' = build_context(chunks)
    /\ UNCHANGED << factory_vars, samples, files, retry_count, chunks, diversity_injection,
                    system_prompt, qa_completion, qa, verify_qa_result, history, frame_log >>

NextContext == CallBuildContext

SpecContext == InitContext /\ [][NextContext]_vars

(***************************************************************************)
(* DiversityGenerator._get_response_length alone, for any shift of the     *)
(* configuration and any draw of the log-normal distribution (0 is the     *)
(* draw that underflowed).                                                 *)
(***************************************************************************)
Shifts == 0 .. MaxShift * LenDen
Draws == 0 .. MaxDraw * LenDen

InitLength ==
    /\ config \in { [shift |-> n] : n \in Shifts }
    /\ generators = << Den >>
    /\ number_of_samples = 1
    /\ pc = "length_call"
    /\ i = 1
    /\ num_samples_for_generator = 1
    /\ sample_idx = 0
    /\ samples = << >>
    /\ files = << >>
    /\ retry_count = [g \in GenIds |-> 0]
    /\ chunks = << >>
    /\ context = << >>
    /\ diversity_injection = NoDiversity
    /\ system_prompt = NoPrompt
    /\ qa_completion = NoCompletion
    /\ qa = NoQA
    /\ verify_qa_result = NoResult
    /\ requested = << 1 >>
    /\ attempts = [g \in GenIds |-> 0]
    /\ only_grounding_false = [g \in GenIds |-> TRUE]
    /\ calls = << >>
    /\ checks = << >>

\* response_length=self._get_response_length()
GetResponseLength ==
    /\ pc = "length_call"
    /\ \E draw \in Draws :
          diversity_injection' =
              [NoDiversity EXCEPT !.response_length = get_response_length(config.shift, draw)]
    /\ pc' = "length_returned"
    /\ UNCHANGED << factory_vars, samples, files, retry_count, chunks, context,
                    system_prompt, qa_completion, qa, verify_qa_result, history, frame_log >>

NextLength == GetResponseLength

SpecLength == InitLength /\ [][NextLength]_vars

(***************************************************************************)
(* Vocabulary of the properties.                                           *)
(***************************************************************************)
\* Positions inside a generate() call.
AttemptPcs == { "seeding", "build_context", "drafting", "drafted", "verifying", "verified" }

\* Ways a run ends without QAFactory.generate returning.
AbortedPcs == { "config_error", "exited", "error" }

\* The attempt under way has just met a transient failure: the context could
\* not be built, the model called the abstain tool, or verification failed.
EmptyContextDetected == pc = "build_context" /\ chunks = << >>
AbstainDetected == pc = "drafted" /\ qa_completion.tool_calls = << "_retry_logic" >>
RejectionDetected == pc = "verified" /\ ~ verify_qa_result.is_correct
FailureDetected == EmptyContextDetected \/ AbstainDetected \/ RejectionDetected

\* The plan entry whose generator produced a record (by its tag set).
StrategyOf(record) == CHOOSE g \in GenIds : get_tags(g) = record.tags

\* Number of records in the output that came from plan entry k.
Delivered(k) == Cardinality({ n \in 1 .. Len(samples) : StrategyOf(samples[n]) = k })

\* floor(total * proportion) for plan entry k.
FloorCount(k) == (number_of_samples * generators[k]) \div Den

\* The proportions sum to 1.0 within 0.01 and each lies in [0, 1].
PlanIsValid ==
    /\ 100 * (SumSeq(generators) - Den) <= Den
    /\ 100 * (Den - SumSeq(generators)) <= Den
    /\ \A k \in 1 .. Len(generators) : generators[k] >= 0 /\ generators[k] <= Den

(***************************************************************************)
(* C1: every record appended to the output was built from the candidate    *)
(* of the attempt under way, for which that attempt's verification         *)
(* returned is_correct = True; a step that meets a failure (empty context, *)
(* abstain, rejection) appends nothing.                                    *)
(***************************************************************************)
C1_OnlyVerifiedCandidatesAppended ==
    [][ /\ samples' # samples =>
            /\ pc = "verified"
            /\ verify_qa_result.is_correct
            /\ qa # NoQA
            /\ Len(samples') = Len(samples) + 1
            /\ SubSeq(samples', 1, Len(samples)) = samples
            /\ LET record == samples'[Len(samples')]
               IN  /\ record.question = qa.question
                   /\ record.ground_truth_answer = qa.ground_truth_answer
                   /\ record.chunk_ids = qa.chunk_ids
        /\ FailureDetected => samples' = samples ]_vars

\* A record was accepted in a run in which earlier attempts had failed.
C1_Witness ==
    /\ samples # << >>
    /\ \E g \in GenIds : retry_count[g] > 0 /\ Delivered(g) > 0

(***************************************************************************)
(* C2 (as amended): when every attempt of a generator ends with the        *)
(* grounding check returning False, the generator makes MAX_RETRIES        *)
(* retries, that is MAX_RETRIES + 1 attempts counting the first, and then  *)
(* exits; it never makes a further attempt.                                *)
(***************************************************************************)
C2_ElevenAttemptsThenExit ==
    /\ \A g \in GenIds : only_grounding_false[g] => attempts[g] <= MAX_RETRIES + 1
    /\ pc = "exited" /\ only_grounding_false[i] => attempts[i] = MAX_RETRIES + 1

C2_Witness ==
    /\ pc = "exited"
    /\ only_grounding_false[i]
    /\ attempts[i] = MAX_RETRIES + 1

\* C2 as stated: exactly MAX_RETRIES attempts counting the first, never an 11th.
C2_AsStated ==
    /\ \A g \in GenIds : only_grounding_false[g] => attempts[g] <= MAX_RETRIES
    /\ pc = "exited" /\ only_grounding_false[i] => attempts[i] = MAX_RETRIES

(***************************************************************************)
(* C3: whenever QAFactory.generate calls generator.generate() for a new    *)
(* sample, the call starts with the full retry budget, that is with        *)
(* retry_count = 0.                                                        *)
(***************************************************************************)
C3_BudgetResetPerSample ==
    [][pc = "for_sample" /\ pc' = "seeding" => retry_count'[i] = 0]_vars

(***************************************************************************)
(* C4: a failure met with the retry budget used up ends the process: the   *)
(* step leads to "exited" without touching the output, and from "exited"   *)
(* nothing happens any more (no attempt, no call, no later strategy).      *)
(***************************************************************************)
C4_ExhaustionEndsTheRun ==
    [][ /\ FailureDetected /\ retry_count[i] >= MAX_RETRIES =>
            /\ pc' = "exited"
            /\ UNCHANGED << samples, files, attempts, retry_count, i, sample_idx >>
        /\ pc = "exited" => UNCHANGED vars ]_vars

\* Exhausted in the first strategy while the second still had samples to make.
C4_Witness ==
    /\ pc = "exited"
    /\ i = 1
    /\ Len(generators) = 2
    /\ FloorCount(2) > 0
    /\ attempts[2] = 0

(***************************************************************************)
(* C5: the batch is written once, when the run completes, and then holds   *)
(* the whole output with every strategy's full count delivered; nothing is *)
(* written before that, nor when the run ends by exhaustion or an error.   *)
(***************************************************************************)
C5_PersistedOnceAtCompletion ==
    /\ files = IF pc = "done" THEN << samples >> ELSE << >>
    /\ pc = "done" => \A k \in 1 .. Len(generators) : Delivered(k) = FloorCount(k)
    /\ pc \in AbortedPcs => files = << >>

\* A completed run that wrote two records.
C5_Witness ==
    /\ pc = "done"
    /\ Len(files) = 1
    /\ Len(files[1]) = 2

(***************************************************************************)
(* C6: the constructor fails exactly for the invalid plans, and for an     *)
(* invalid plan generate() of no generator is ever entered.                *)
(***************************************************************************)
C6_InvalidPlanFailsAtConstruction ==
    /\ pc # "construct" => (pc = "config_error" <=> ~ PlanIsValid)
    /\ ~ PlanIsValid =>
          /\ pc \in { "construct", "config_error" }
          /\ \A g \in GenIds : attempts[g] = 0
          /\ samples = << >>
          /\ files = << >>

\* A plan whose sum is fine but with a percentage outside [0, 1] was refused.
C6_Witness ==
    /\ pc = "config_error"
    /\ SumSeq(generators) = Den
    /\ \E k \in 1 .. Len(generators) : generators[k] < 0

(***************************************************************************)
(* C7: in a completed run every strategy has delivered exactly             *)
(* floor(total * proportion) records.                                      *)
(***************************************************************************)
C7_ExactFloorCountPerStrategy ==
    pc = "done" => \A k \in 1 .. Len(generators) : Delivered(k) = FloorCount(k)

\* A completed run in which a strategy needed retries for its samples.
C7_Witness ==
    /\ pc = "done"
    /\ \E k \in 1 .. Len(generators) : Delivered(k) = 2 /\ retry_count[k] > 0

(***************************************************************************)
(* C8: for every plan that passes validation the per-strategy counts sum   *)
(* to at most the total.                                                   *)
(***************************************************************************)
C8_CountsSumAtMostTotal ==
    SumSeq(requested) <= number_of_samples

(***************************************************************************)
(* C9: the output is ordered by plan entry; an attempt of entry j runs     *)
(* only when every earlier entry has delivered its full count; and the     *)
(* records of the entry under way are in the output as soon as accepted.   *)
(***************************************************************************)
C9_StrategiesInPlanOrder ==
    /\ \A m, n \in 1 .. Len(samples) :
          m < n => StrategyOf(samples[m]) <= StrategyOf(samples[n])
    /\ pc \in AttemptPcs \cup { "for_sample" } =>
          /\ \A k \in 1 .. (i - 1) : Delivered(k) = FloorCount(k)
          /\ Delivered(i) = sample_idx
          /\ \A k \in (i + 1) .. Len(generators) : Delivered(k) = 0 /\ attempts[k] = 0

\* The second strategy is at work after the first delivered its sample.
C9_Witness ==
    /\ pc \in AttemptPcs
    /\ i = 2
    /\ Delivered(1) > 0

VerificationOps == { "get_search_records_by_ids", "llm_judge", "get_search_record_content" }

NoVerificationCall(log) == \A k \in 1 .. Len(log) : log[k][1] \notin VerificationOps

C11_AbstainGoesStraightToRetry ==
    [][AbstainDetected =>
          /\ pc' = IF retry_count[i] < MAX_RETRIES THEN "seeding" ELSE "exited"
          /\ attempts'[i] = IF retry_count[i] < MAX_RETRIES THEN attempts[i] + 1
                                                              ELSE attempts[i]
          /\ checks = << >> /\ checks' = << >>
          /\ NoVerificationCall(calls) /\ NoVerificationCall(calls')
          /\ qa = NoQA /\ qa' = NoQA
          /\ verify_qa_result' = NoResult
          /\ samples' = samples]_vars

\* The abstain tool call came together with a parsed question-answer pair,
\* in an attempt that is itself a retry.
C11_Witness ==
    /\ AbstainDetected
    /\ qa_completion.parsed \in Candidates
    /\ retry_count[i] >= 1

DraftingOps == { "get_diversity_injection", "llm_draft" }

NoDraftingCall(log) == \A k \in 1 .. Len(log) : log[k][1] \notin DraftingOps

\* The last capability call of the frame raised.
LastCallRaised == calls # << >> /\ calls[Len(calls)][2] = "raised"

LlmOps == { "llm_draft", "llm_judge" }

LlmCallRaised == LastCallRaised /\ calls[Len(calls)][1] \in LlmOps

C13_CapabilityErrorsPropagate ==
    [][/\ pc # "error"
       /\ LastCallRaised' =>
             /\ pc' = "error"
             /\ retry_count' = retry_count
             /\ attempts' = attempts
             /\ samples' = samples
             /\ files' = files /\ files = << >>]_vars

\* The judging call of the second sample raised after a retry and after a
\* first sample was produced: the run is over and nothing was written.
C13_Witness ==
    /\ pc = "error"
    /\ LlmCallRaised
    /\ calls[Len(calls)][1] = "llm_judge"
    /\ retry_count[i] >= 1
    /\ samples # << >>
    /\ files = << >>

(***************************************************************************)
(* C14.  Once verification has returned, the verdict of the single-hop     *)
(* generator is positive exactly when the grounding check passed, and its  *)
(* frame never invoked the multi-hop check; the verdict of the multi-hop   *)
(* generator is positive exactly when the grounding check and the          *)
(* multi-hop check both passed.  The candidate is appended to the output   *)
(* only on a positive verdict, and a positive verdict leads to the append  *)
(* (unless the fetch of the contents raises).                              *)
(***************************************************************************)
Grounding == "_verify_qa_chunk_connection"
MultiHop == "_verify_qa_question_requires_multi_hop"

Invoked(name) == \E k \in 1 .. Len(checks) : checks[k].name = name

Passed(name) ==
    \E k \in 1 .. Len(checks) :
        checks[k].name = name /\ ~ checks[k].raised /\ checks[k].is_correct

Failed(name) ==
    \E k \in 1 .. Len(checks) :
        checks[k].name = name /\ ~ checks[k].raised /\ ~ checks[k].is_correct

IsSingleHop == i \in GenIds /\ Generators[i] = "SingleHopOneDocGenerator"
IsMultiHop == i \in GenIds /\ Generators[i] = "MultiHopOneDocGenerator"

CountOp(log, op) == Cardinality({ k \in 1 .. Len(log) : log[k][1] = op })

Heading(name) ==
    IF name = Grounding THEN << "not found in specified chunks" >>
    ELSE << "does not require multi-hop reasoning" >>

C15_ChainShortCircuits ==
    /\ checks # << >> => checks[1].name = Grounding
    /\ Invoked(MultiHop) =>
          /\ Len(checks) = 2
          /\ checks[2].name = MultiHop
          /\ ~ checks[1].raised /\ checks[1].is_correct
    /\ Failed(Grounding) =>
          /\ ~ Invoked(MultiHop)
          /\ CountOp(calls, "get_search_records_by_ids") = 1
          /\ CountOp(calls, "llm_judge") <= 1
    /\ pc = "verified" /\ ~ verify_qa_result.is_correct =>
          LET failing == checks[Len(checks)]
          IN  /\ ~ failing.raised /\ ~ failing.is_correct
              /\ verify_qa_result.reason = Heading(failing.name) \o failing.reason

\* The multi-hop generator's candidate failed the grounding check in the
\* judging call: the verdict carries the judge's reason for it.
C15_Witness ==
    /\ pc = "verified"
    /\ IsMultiHop
    /\ Failed(Grounding)
    /\ verify_qa_result.reason = << "not found in specified chunks", "judge" >>

(***************************************************************************)
(* C16.  When the fetch by chunk ids of the grounding check returns        *)
(* nothing, the check returns is_correct = False with the reason "No       *)
(* chunks found for the given chunk IDs" and without a judging call; it    *)
(* is the only predicate run, the verdict is negative, and the next step   *)
(* is the retry logic, which consumes one retry (or exits when none is     *)
(* left): the run does not end in an uncaught exception and nothing is     *)
(* appended to the output.                                                 *)
(***************************************************************************)
GroundingFetchedNothing ==
    /\ pc = "verified"
    /\ checks[1].name = Grounding
    /\ checks[1].fetched = << >>

C16_NothingFetchedIsARejection ==
    [][GroundingFetchedNothing =>
          /\ Len(checks) = 1
          /\ ~ checks[1].raised /\ ~ checks[1].is_correct
          /\ checks[1].reason = << "No chunks found for the given chunk IDs" >>
          /\ CountOp(calls, "llm_judge") = 0
          /\ ~ verify_qa_result.is_correct
          /\ pc' = IF retry_count[i] < MAX_RETRIES THEN "seeding" ELSE "exited"
          /\ retry_count'[i] = IF retry_count[i] < MAX_RETRIES
                                THEN retry_count[i] + 1 ELSE retry_count[i]
          /\ samples' = samples]_vars

\* The fetch for a candidate naming two chunks returned nothing, in an
\* attempt that is itself a retry.
C16_Witness ==
    /\ GroundingFetchedNothing
    /\ qa.chunk_ids = << "c1", "c2" >>
    /\ retry_count[i] >= 1

(***************************************************************************)
(* C17.  No record of the output tagged multi_hop_same_doc names fewer     *)
(* than two chunks: the multi-hop generator rejects a candidate that names *)
(* a single chunk whatever the judging model answers.                      *)
(***************************************************************************)
C17_MultiHopRecordsNameTwoChunks ==
    \A n \in 1 .. Len(samples) :
        samples[n].tags.question_type = "multi_hop_same_doc"
            => Len(samples[n].chunk_ids) >= 2

(***************************************************************************)
(* C18.  The chunk_content of a record appended to the output is the       *)
(* content of the records the grounding check of its frame put before the  *)
(* judging model, whatever the fetch made at acceptance returns.           *)
(***************************************************************************)
C18_ContentIsWhatWasJudged ==
    [][(pc = "verified" /\ Len(samples') = Len(samples) + 1) =>
          samples'[Len(samples')].chunk_content = contents_of(checks[1].judged)]_vars

(***************************************************************************)
(* C19.  As stated: the single-hop generator builds its context from a     *)
(* single random chunk only.                                               *)
(***************************************************************************)
C19_AsStated ==
    (IsSingleHop /\ pc \in AttemptPcs) => Len(chunks) <= 1

\* The ids of the corpus chunks of the document of record r.
IdsOfDocument(r) == { Corpus[j].id : j \in { m \in ChunkIndex : Corpus[m].doc = r.doc } }

(***************************************************************************)
(* C19, amended.  Seed selection is the same for both generators: once a   *)
(* frame has seeded, its chunks are either none or all the chunks of one   *)
(* document, each once, in ascending part number, and the context the      *)
(* drafting call receives is built from exactly those - for the            *)
(* single-hop generator as for the multi-hop generator.                    *)
(***************************************************************************)
C19_SeedIsWholeDocumentForBoth ==
    (pc \in AttemptPcs \ { "seeding" } /\ chunks # << >>) =>
        /\ \A k \in 1 .. Len(chunks) : chunks[k].doc = chunks[1].doc
        /\ { chunks[k].id : k \in 1 .. Len(chunks) } = IdsOfDocument(chunks[1])
        /\ Len(chunks) = Cardinality(IdsOfDocument(chunks[1]))
        /\ \A k \in 1 .. Len(chunks) - 1 : chunks[k].part <= chunks[k + 1].part
        /\ pc # "build_context" => context = build_context(chunks)

\* The single-hop generator is about to draft from a context of two chunks.
C19_Witness ==
    /\ IsSingleHop
    /\ pc = "drafting"
    /\ Len(chunks) = 2
    /\ context = build_context(chunks)

(***************************************************************************)
(* C20.  _build_context called on an empty sequence raises and returns no  *)
(* context; called on a sequence that is not empty it returns a context    *)
(* (one chunk block per record, so never an empty one) and raises only     *)
(* when an accessor raised on one of the records.                          *)
(***************************************************************************)
ChunkBlocks(parts) == Cardinality({ k \in 1 .. Len(parts) : parts[k][1] = "CHUNK_ID" })

C20_BuildContextRaisesIffEmpty ==
    /\ (pc # "context_call" /\ chunks = << >>) => pc = "context_raised" /\ context = << >>
    /\ (pc # "context_call" /\ chunks # << >> /\ ~ accessor_raises_in(chunks)) =>
          /\ pc = "context_returned"
          /\ context # << >>
          /\ ChunkBlocks(context) = Len(chunks)
    /\ pc = "context_raised" => chunks = << >> \/ accessor_raises_in(chunks)

\* A context was returned for records that carry no title at all.
C20_Witness ==
    /\ pc = "context_returned"
    /\ Len(chunks) = 2
    /\ \A k \in 1 .. Len(chunks) : get_search_record_title(chunks[k]) = ""

(***************************************************************************)
(* C21.  As stated: the context holds one title header for every record    *)
(* whose title differs from that of the record before it, the first        *)
(* record always counting.                                                 *)
(***************************************************************************)
TitleChanges(k) ==
    k = 1 \/ get_search_record_title(chunks[k]) # get_search_record_title(chunks[k - 1])

Headers(parts) == Cardinality({ p \in 1 .. Len(parts) : parts[p][1] = "Document Title" })

C21_AsStated ==
    pc = "context_returned" =>
        Headers(context) = Cardinality({ k \in 1 .. Len(chunks) : TitleChanges(k) })

\* A header is due for record k: its title differs from the one before and
\* is not empty.
HeaderDue(k) == TitleChanges(k) /\ get_search_record_title(chunks[k]) # ""

\* Where the chunk block of record k stands in the context.
BlockPosition(k) == k + Cardinality({ j \in 1 .. k : HeaderDue(j) })

(***************************************************************************)
(* C21, amended.  The context holds a title header exactly for the records *)
(* whose title differs from the title of the record before it (the first   *)
(* record always counting) and is not empty; it holds the id-and-content   *)
(* block of every record, in input order, and a header stands immediately  *)
(* before the block of the record it is due for.  Nothing else is in it.   *)
(***************************************************************************)
C21_HeaderOnNonEmptyTitleChange ==
    pc = "context_returned" =>
        /\ Len(context) = Len(chunks) + Cardinality({ k \in 1 .. Len(chunks) : HeaderDue(k) })
        /\ \A k \in 1 .. Len(chunks) :
              /\ context[BlockPosition(k)] =
                    << "CHUNK_ID", get_search_record_id(chunks[k]),
                       get_search_record_content(chunks[k]) >>
              /\ HeaderDue(k) =>
                    context[BlockPosition(k) - 1] =
                        << "Document Title", get_search_record_title(chunks[k]) >>

\* Titles T, none, T: the header of T is emitted twice and none for the
\* untitled record.
C21_Witness ==
    /\ pc = "context_returned"
    /\ Len(chunks) = 3
    /\ get_search_record_title(chunks[1]) = "T"
    /\ get_search_record_title(chunks[2]) = ""
    /\ get_search_record_title(chunks[3]) = "T"
    /\ Headers(context) = 2

(***************************************************************************)
(* C22.  The record appended to the output carries the question, answer    *)
(* and chunk ids of the candidate the drafting call parsed, unchanged, and *)
(* the tag of the generator whose frame produced it: single_hop_same_doc   *)
(* for SingleHopOneDocGenerator, multi_hop_same_doc for                    *)
(* MultiHopOneDocGenerator; the records before it stay as they were.  So   *)
(* in a completed run the number of records with each tag is the floor     *)
(* count of the plan entry of that generator.                              *)
(***************************************************************************)
TagOfClass(class) ==
    IF class = "SingleHopOneDocGenerator" THEN "single_hop_same_doc"
    ELSE "multi_hop_same_doc"

Tagged(records, tag) ==
    Cardinality({ n \in 1 .. Len(records) : records[n].tags.question_type = tag })

C22_RecordCarriesCandidateAndTag ==
    [][/\ Len(samples') = Len(samples) + 1 =>
             LET record == samples'[Len(samples')]
             IN  /\ record.question = qa_completion.parsed.question
                 /\ record.ground_truth_answer = qa_completion.parsed.ground_truth_answer
                 /\ record.chunk_ids = qa_completion.parsed.chunk_ids
                 /\ record.tags = [question_type |-> TagOfClass(Generators[i])]
                 /\ SubSeq(samples', 1, Len(samples)) = samples
       /\ pc' = "done" =>
             \A k \in 1 .. Len(generators) :
                 Tagged(samples', TagOfClass(Generators[k])) = FloorCount(k)]_vars

\* A completed run with one record of each tag.
C22_Witness ==
    /\ pc = "done"
    /\ Tagged(samples, "single_hop_same_doc") = 1
    /\ Tagged(samples, "multi_hop_same_doc") = 1

(***************************************************************************)
(* C23.  The response length returned by the sampler is at least the       *)
(* configured shift, for every shift and every draw.                       *)
(***************************************************************************)
C23_LengthAtLeastShift ==
    pc = "length_returned" => diversity_injection.response_length * LenDen >= config.shift

(***************************************************************************)
(* C24.  Every run ends: it eventually reaches the rejected plan, the      *)
(* completed run, the exit of the retry logic or the uncaught exception,   *)
(* and no step leaves these.  A completed run has written one batch, the   *)
(* output, whose length is the sum of the floor counts of the plan.        *)
(***************************************************************************)
EndPcs == { "config_error", "done", "exited", "error" }

RECURSIVE SumFloorCounts(_)
SumFloorCounts(k) == IF k = 0 THEN 0 ELSE FloorCount(k) + SumFloorCounts(k - 1)

C24_EveryRunEnds ==
    /\ <>[](pc \in EndPcs)
    /\ [](pc = "done" => /\ PlanIsValid
                         /\ files = << samples >>
                         /\ Len(samples) = SumFloorCounts(Len(generators)))

\* A run completed after retry_count of a generator reached MAX_RETRIES.
C24_Witness ==
    /\ pc = "done"
    /\ samples # << >>
    /\ \E g \in GenIds : retry_count[g] = MAX_RETRIES

(***************************************************************************)
(* C25.  The steps of a generate() frame come in one order.  The position  *)
(* moves only seeding -> context -> drafting -> drafted -> verifying ->    *)
(* verified, and leaves that line only to the retry logic, to the caller   *)
(* with a record, or by an uncaught exception.  The capability calls of    *)
(* the frame are, in order, the two seed retrievals, the diversity         *)
(* sampling, the drafting call, the fetches and judging calls of the       *)
(* checks, and the fetch of the contents.  The drafting call is made with  *)
(* the context built from the frame's own seed, which is not empty; the    *)
(* checks run on the candidate the frame's drafting call parsed; a record  *)
(* is appended, and the contents fetched, only after a positive verdict;   *)
(* and a frame ends in exactly one way: a record appended (no retry        *)
(* counted), a retry or exit (nothing appended), or an exception           *)
(* (neither).                                                              *)
(***************************************************************************)
FrameOrder ==
    { << "seeding", "build_context" >>, << "seeding", "error" >>,
      << "build_context", "drafting" >>, << "build_context", "seeding" >>,
      << "build_context", "exited" >>,
      << "drafting", "drafted" >>, << "drafting", "error" >>,
      << "drafted", "verifying" >>, << "drafted", "seeding" >>,
      << "drafted", "exited" >>, << "drafted", "error" >>,
      << "verifying", "verified" >>, << "verifying", "error" >>,
      << "verified", "for_sample" >>, << "verified", "seeding" >>,
      << "verified", "exited" >>, << "verified", "error" >> }

CallOrders ==
    LET head == << "get_random_chunk", "get_all_chunks_of_document",
                   "get_diversity_injection", "llm_draft" >>
        check == << "get_search_records_by_ids", "llm_judge" >>
        snapshot == << "get_search_records_by_ids", "get_search_record_content" >>
    IN  { head \o check \o snapshot, head \o check \o check \o snapshot }

OpsOf(log) == [k \in 1 .. Len(log) |-> log[k][1]]

IsPrefix(s, t) == Len(s) <= Len(t) /\ s = SubSeq(t, 1, Len(s))

C25_StepsOfAFrameInOrder ==
    [][/\ \E order \in CallOrders : IsPrefix(OpsOf(calls), order)
       /\ pc \in AttemptPcs =>
             /\ << pc, pc' >> \in FrameOrder
             /\ pc \in { "drafting", "drafted", "verifying", "verified" } =>
                   chunks # << >> /\ context # << >> /\ context = build_context(chunks)
             /\ pc \in { "verifying", "verified" } =>
                   qa # NoQA /\ qa = qa_completion.parsed
             /\ checks # << >> => pc = "verified"
             /\ CountOp(calls, "llm_draft") = (IF pc \in { "seeding", "build_context", "drafting" }
                                               THEN 0 ELSE 1)
             /\ CountOp(calls', "get_search_records_by_ids") > Len(checks') =>
                   pc = "verified" /\ verify_qa_result.is_correct
             /\ pc' = "for_sample" =>
                   /\ pc = "verified" /\ verify_qa_result.is_correct
                   /\ Len(samples') = Len(samples) + 1
                   /\ retry_count' = retry_count /\ attempts' = attempts
             /\ pc' \in { "seeding", "exited" } =>
                   /\ samples' = samples
                   /\ pc' = "seeding" => /\ retry_count'[i] = retry_count[i] + 1
                                         /\ attempts'[i] = attempts[i] + 1
             /\ pc' = "error" =>
                   samples' = samples /\ retry_count' = retry_count /\ attempts' = attempts
             /\ pc' \in AttemptPcs \ { "seeding" } => samples' = samples]_vars

\* The multi-hop generator's frame ran both checks, after a retry.
C25_Witness ==
    /\ pc = "verified"
    /\ OpsOf(calls) = << "get_random_chunk", "get_all_chunks_of_document",
                         "get_diversity_injection", "llm_draft",
                         "get_search_records_by_ids", "llm_judge",
                         "get_search_records_by_ids", "llm_judge" >>
    /\ retry_count[i] >= 1

(***************************************************************************)
(* C26.  A frame starts without a profile and samples exactly one, right   *)
(* after its context is built; that profile is the one formatted into the  *)
(* system prompt of the frame's drafting call, it stays the same for the   *)
(* rest of the frame, and it is the one embedded in the record the frame   *)
(* returns.  A retry starts a frame without a profile, so a record never   *)
(* carries the profile of an earlier attempt.                              *)
(***************************************************************************)
ProfilesSampled == CountOp(calls, "get_diversity_injection")

C26_RecordCarriesProfileOfItsAttempt ==
    [][/\ (pc = "seeding" \/ pc = "build_context") =>
             /\ diversity_injection = NoDiversity
             /\ system_prompt = NoPrompt
             /\ ProfilesSampled = 0
       /\ pc \in { "drafting", "drafted", "verifying", "verified" } =>
             /\ ProfilesSampled = 1
             /\ diversity_injection \in DiversityInjections
             /\ system_prompt.guidelines = get_injection_as_string(diversity_injection)
             /\ pc' \in { "drafted", "verifying", "verified" } =>
                   diversity_injection' = diversity_injection /\ system_prompt' = system_prompt
             /\ pc' = "seeding" =>
                   diversity_injection' = NoDiversity /\ system_prompt' = NoPrompt
       /\ Len(samples') = Len(samples) + 1 =>
             /\ samples'[Len(samples')].diversity_injection = diversity_injection
             /\ system_prompt.guidelines =
                    get_injection_as_string(samples'[Len(samples')].diversity_injection)]_vars

\* Two records with different profiles, the generator of the first having
\* retried.
C26_Witness ==
    /\ Len(samples) = 2
    /\ samples[1].diversity_injection # samples[2].diversity_injection
    /\ retry_count[1] >= 1

(***************************************************************************)
(* C27.  In every record of the output chunk_content is aligned with       *)
(* chunk_ids: the same length, and at each position the content of the     *)
(* chunk whose id stands at that position.                                 *)
(***************************************************************************)
ContentOfId(id) == Corpus[CHOOSE j \in ChunkIndex : Corpus[j].id = id].content

C27_ContentAlignedWithIds ==
    \A n \in 1 .. Len(samples) :
        /\ Len(samples[n].chunk_content) = Len(samples[n].chunk_ids)
        /\ \A k \in 1 .. Len(samples[n].chunk_ids) :
              samples[n].chunk_content[k] = ContentOfId(samples[n].chunk_ids[k])

(***************************************************************************)
(* C28.  The retry_count of every generator stays within 0 .. MAX_RETRIES  *)
(* and never decreases.  It grows by one at a time, only for the generator *)
(* at work and only in a step that starts a retry; a retry is started only *)
(* with retry_count below MAX_RETRIES, and the process exits only with     *)
(* retry_count equal to MAX_RETRIES, leaving it as it is.                  *)
(***************************************************************************)
C28_RetryCountWithinBudget ==
    [][/\ \A g \in GenIds :
             /\ retry_count[g] \in 0 .. MAX_RETRIES
             /\ retry_count'[g] \in 0 .. MAX_RETRIES
             /\ retry_count'[g] >= retry_count[g]
             /\ retry_count'[g] # retry_count[g] =>
                   /\ g = i
                   /\ retry_count'[g] = retry_count[g] + 1
                   /\ pc \in AttemptPcs /\ pc' = "seeding"
       /\ (pc \in AttemptPcs /\ pc' = "seeding") =>
             retry_count[i] < MAX_RETRIES /\ retry_count'[i] = retry_count[i] + 1
       /\ pc' = "exited" =>
             retry_count[i] = MAX_RETRIES /\ retry_count' = retry_count]_vars

\* The exit is taken in a later sample, after a record was produced.
C28_Witness ==
    /\ pc = "exited"
    /\ retry_count[i] = MAX_RETRIES
    /\ samples # << >>

(***************************************************************************)
(* C29.  A plan entry whose count floor(total * proportion) is 0 is        *)
(* skipped: the step that computes its count moves on to the next entry    *)
(* and changes neither the output, nor a retry_count, nor the number of    *)
(* generate() calls, nor the recorded capability calls.  No frame ever     *)
(* runs, and no capability call is ever recorded, for such an entry; its   *)
(* generate() is never entered, its retry_count stays 0 and no record of   *)
(* it is in the output.  The run goes on: when it completes, the batch     *)
(* written is the output, and it is empty when every count is 0.           *)
(***************************************************************************)
C29_ZeroCountEntryIsSkipped ==
    [][/\ (pc = "for_generator" /\ i <= Len(generators) /\ FloorCount(i) = 0) =>
             /\ pc' = "for_generator" /\ i' = i + 1
             /\ samples' = samples /\ files' = files
             /\ retry_count' = retry_count /\ attempts' = attempts
             /\ calls' = calls /\ calls = << >>
       /\ (pc \in AttemptPcs \/ calls # << >>) => FloorCount(i) > 0
       /\ PlanIsValid =>
             \A k \in 1 .. Len(generators) :
                 FloorCount(k) = 0 =>
                     attempts'[k] = 0 /\ retry_count'[k] = 0 /\ Delivered(k)' = 0
       /\ pc' = "done" =>
             /\ files' = << samples >>
             /\ (\A k \in 1 .. Len(generators) : FloorCount(k) = 0) => files' = << << >> >>]_vars

\* total = 1 with proportions 0.5 / 0.5: both entries were skipped and an
\* empty batch was written.
C29_Witness ==
    /\ pc = "done"
    /\ number_of_samples = 1
    /\ generators = << Den \div 2, Den \div 2 >>
    /\ attempts = [g \in GenIds |-> 0]
    /\ files = << << >> >>

(***************************************************************************)
(* C30.  The chunk ids of a record appended to the output are among the    *)
(* ids of the chunks the frame put in its generation context.              *)
(***************************************************************************)
IdsIn(records) == { get_search_record_id(records[k]) : k \in 1 .. Len(records) }

C30_SourcesAreFromTheContext ==
    [][Len(samples') = Len(samples) + 1 =>
          { samples'[Len(samples')].chunk_ids[k] :
              k \in 1 .. Len(samples'[Len(samples')].chunk_ids) } \subseteq IdsIn(chunks)]_vars

====
